---- MODULE Spec2Model ----
(***************************************************************************)
(* A model of the incremental translation batch job of translator/main.py. *)
(*                                                                         *)
(* Durable state: the source files of <trans_dir>/main, the per-language   *)
(* translation files <trans_dir>/<lang>/<ns>.json and <trans_dir>/         *)
(* cache.json.  Process state: the local variables of main() and the       *)
(* position of the single thread of control (pc).  One run of the program  *)
(* is the path from Start to pc = "idle".                                  *)
(*                                                                         *)
(* Strings are TLA+ strings; a JSON object is a sequence of <<key, value>> *)
(* pairs in insertion order (a Python dict keeps insertion order and       *)
(* json.dump writes it in that order).                                     *)
(*                                                                         *)
(* A write of a file is two steps, the open that truncates it and the dump *)
(* that fills it, because the process can be interrupted between them;     *)
(* when nothing interrupts, the second step is the only one enabled after  *)
(* the first.  Spec has runs that nothing interrupts, with the sources     *)
(* edited between runs; SpecInterrupt has runs that a KeyboardInterrupt or *)
(* a kill ends, with the sources unchanged; SpecHandEdit has runs that     *)
(* nothing interrupts, with the translation files edited by hand between   *)
(* runs.                                                                   *)
(***************************************************************************)
EXTENDS Naturals, Sequences, FiniteSets, TLC

(***************************************************************************)
(* Bounds of the model.                                                    *)
(***************************************************************************)
\* Runs of the program in one behaviour.
MaxRuns == 2
\* Edits a person makes to the files between runs.
MaxEdits == 1

(***************************************************************************)
(* Values.                                                                 *)
(***************************************************************************)
\* Python's None (a missing dict entry read with .get, a JSON null).
None == "<None>"

\* langs.py: the table of supported languages, in the order of the dict
\* (cut to its first two rows).
SUPPORTED_LANGS == <<"en", "es">>

LangCodes == {SUPPORTED_LANGS[i] : i \in DOMAIN SUPPORTED_LANGS}

\* What llm.detect_lang can answer for the sample: a supported code, or a
\* code that is no row of SUPPORTED_LANGS.
DetectOut == {"en", "la"}

\* What llm.translate can answer on success: a non-empty text (line 212
\* asserts it).
TransOut == {"x"}

\* What os.environ.get("OPENAI_API_KEY") can answer: the variable is unset,
\* or holds a key.
ApiKeys == {None, "sk"}

\* A JSON value that is no string and that Python takes as true (a number
\* other than 0, a list or an object that is not empty).
JsonNumber == "<number>"

\* What a person can put by hand in the place of a stored translation.
HandValues == {"h", JsonNumber}

\* The namespaces (file stems) of <trans_dir>/main, in glob order.
Namespaces == <<"ui", "menu">>

NsNames == {Namespaces[i] : i \in DOMAIN Namespaces}

\* The entry keys that occur in the source files of the model.
EntryKeys == {"a", "b"}

(***************************************************************************)
(* Ordered mappings (dict / JSON object).                                  *)
(***************************************************************************)
DictKeys(d) == {d[i][1] : i \in DOMAIN d}

\* dict.get(k): the value, or None.
DictGet(d, k) ==
    IF k \in DictKeys(d)
    THEN d[CHOOSE i \in DOMAIN d : d[i][1] = k][2]
    ELSE None

\* d[k] = v: in place when the key exists, appended otherwise.
DictSet(d, k, v) ==
    IF k \in DictKeys(d)
    THEN [i \in DOMAIN d |-> IF d[i][1] = k THEN <<k, v>> ELSE d[i]]
    ELSE Append(d, <<k, v>>)

(***************************************************************************)
(* Files.  A file is missing, holds a JSON document ("ok"), or holds the   *)
(* prefix of one ("partial": open(path, "w") truncated it and the dump has *)
(* not finished), which json.load rejects.                                 *)
(***************************************************************************)
NoFile == [state |-> "missing", data |-> <<>>]

JsonFile(d) == [state |-> "ok", data |-> d]

PartialFile == [state |-> "partial", data |-> <<>>]

\* The source files a person can have in <trans_dir>/main/ui.json.
UiSources ==
    { << <<"b", "hi">>, <<"a", "ab">> >>,
      << <<"a", "a">>, <<"a_", "b">> >>,
      << <<"a", "">> >> }

\* The source files a person can have in <trans_dir>/main/menu.json, when
\* it exists.
MenuSources == { << <<"a", "yo">> >> }

\* <trans_dir>/main holds ui.json, with or without menu.json, or no source
\* file at all.
SourceChoices ==
    { [ns \in NsNames |-> IF ns = "ui" THEN JsonFile(u) ELSE m] :
        u \in UiSources, m \in {NoFile} \cup {JsonFile(x) : x \in MenuSources} }
    \cup { [ns \in NsNames |-> NoFile] }

(***************************************************************************)
(* main.py: pure helpers.                                                  *)
(***************************************************************************)
\* str.endswith("_"), over the keys of the model's source files.
EndsWithUnderscore(key) == \E k \in EntryKeys : key = k \o "_"

\* load_source: the entries (key, value, ctx) of a source file, in file
\* order; a key ending in "_" is the context of its sibling.
RECURSIVE LoadEntries(_, _)
LoadEntries(raw, i) ==
    IF i > Len(raw) THEN <<>>
    ELSE IF EndsWithUnderscore(raw[i][1]) THEN LoadEntries(raw, i + 1)
    ELSE << <<raw[i][1], raw[i][2], DictGet(raw, raw[i][1] \o "_")>> >>
            \o LoadEntries(raw, i + 1)

load_source(file) == LoadEntries(file.data, 1)

\* h: hashlib.sha1(text).hexdigest(), taken as injective.
h(text) == "sha1:" \o text

\* context or ""
OrEmpty(context) == IF context = None THEN "" ELSE context

\* line 178: the fingerprint of an entry's input.
InputHash(to_translate, context) == h(to_translate \o OrEmpty(context))

\* load_translations: the mapping of the file; empty when the file is
\* missing or is no JSON document.
load_translations(file) == IF file.state = "ok" THEN file.data ELSE <<>>

\* source_entries: the namespaces that have a source file, in glob order.
source_entries(src) == SelectSeq(Namespaces, LAMBDA ns : src[ns].state = "ok")

\* The cache a run starts from when there is no cache.json, with every
\* .get of a missing key answering None.
NoHashes == [input |-> None, output |-> None]

EmptyCache == [lang |-> None,
               entries |-> [k \in EntryKeys |-> [l \in LangCodes |-> NoHashes]]]

\* cache.json: missing, a JSON document, or the prefix of one.
NoCacheFile == [state |-> "missing", data |-> EmptyCache]

CacheFile(c) == [state |-> "ok", data |-> c]

PartialCacheFile == [state |-> "partial", data |-> EmptyCache]

\* lines 125 and 139-140: the announced number of work units.
TotalTranslations(total_entries, primary) ==
    IF primary \in LangCodes
    THEN total_entries * Len(SUPPORTED_LANGS) - total_entries
    ELSE total_entries * Len(SUPPORTED_LANGS)

\* needs_translation without the comparison of the output fingerprints of
\* line 199.
needs_translation_by_input(entry, lang_code, primary, c, translations) ==
    LET key == entry[1]
        cur_input_hash == InputHash(entry[2], entry[3])
        is_primary_lang == lang_code = primary
        cur_translation == IF is_primary_lang THEN entry[2]
                           ELSE DictGet(translations, key)
        last_input_hash == IF is_primary_lang THEN cur_input_hash
                           ELSE c.entries[key][lang_code].input
    IN IF cur_translation = None \/ cur_translation = "" THEN TRUE
       ELSE last_input_hash # cur_input_hash

\* lines 177-201: whether the entry is translated in this pass.
needs_translation(entry, lang_code, primary, c, translations) ==
    LET key == entry[1]
        to_translate == entry[2]
        context == entry[3]
        cur_input_hash == InputHash(to_translate, context)
        lang_hashes == c.entries[key][lang_code]
        is_primary_lang == lang_code = primary
        cur_translation == IF is_primary_lang THEN to_translate
                           ELSE DictGet(translations, key)
        last_output_hash == IF is_primary_lang THEN h(to_translate)
                            ELSE lang_hashes.output
        last_input_hash == IF is_primary_lang THEN cur_input_hash
                           ELSE lang_hashes.input
    IN IF cur_translation = None \/ cur_translation = "" THEN TRUE
       ELSE ~(last_input_hash = cur_input_hash
              /\ last_output_hash = h(cur_translation))

\* lines 189, 193: the translation carried forward when none is needed.
cur_translation_of(entry, lang_code, primary, translations) ==
    IF lang_code = primary THEN entry[2] ELSE DictGet(translations, entry[1])

\* lines 232-233: the fingerprints recorded for the entry once it is processed.
UpdatedHashes(entry, updated_translation) ==
    [input |-> InputHash(entry[2], entry[3]), output |-> h(updated_translation)]

\* lines 193-199: h(cur_translation) of a stored value that is no string
\* raises AttributeError (it has no encode).
HashRaises(entry, lang_code, primary, translations) ==
    /\ lang_code # primary
    /\ DictGet(translations, entry[1]) = JsonNumber

\* StartError without the checks of lines 110 and 129.
StartErrorUnchecked(cf, key, src) ==
    IF cf.state = "partial" THEN "JSONDecodeError" ELSE None

\* lines 97-129: the exception that ends main() before the detection, or
\* None: json.load of a cache.json that is no JSON document, the missing
\* API key, next() of an empty glob.
StartError(cf, key, src) ==
    IF cf.state = "partial" THEN "JSONDecodeError"
    ELSE IF key = None \/ key = "" THEN "ValueError"
    ELSE IF source_entries(src) = <<>> THEN "StopIteration"
    ELSE None

\* NeedsDetection without the test of line 130.
AlwaysDetects(c) == TRUE

\* line 130: not primary_lang.
NeedsDetection(c) == c.lang = None \/ c.lang = ""

(***************************************************************************)
(* State.                                                                  *)
(***************************************************************************)
VARIABLES
    \* the environment
    api_key,            \* the variable OPENAI_API_KEY, None when it is unset
    \* durable
    source,             \* ns -> the source file main/<ns>.json
    files,              \* <<lang, ns>> -> the translation file
    cache_file,         \* cache.json
    \* the process
    pc,                 \* position of main(); "idle" when no process runs
    status,             \* how the last process ended
    error,              \* the exception that ended it, None when none did
    cache,              \* main's cache dict
    primary_lang,
    si, li, ei,         \* indices of the source, language and entry loops
    lang_translations,
    exiting,            \* write() was called from the KeyboardInterrupt handler
    processed,
    total_translations,
    \* history
    runNo,              \* processes started so far
    edits,              \* edits of the sources and the translation files so far
    edited,             \* the sources or a translation file were edited since
                        \* the last run began
    rerunOf,            \* how the run before this one ended, "none" when a
                        \* file was edited since
    beforeWrite,        \* the translation file last opened for writing, as
                        \* it was before the open
    changed,            \* this run wrote a file with another content than
                        \* the file had before the write
    calls,              \* <<ns, lang, key>> of the translate calls of this run
    failed,             \* <<ns, lang, key>> of the failed calls of this run
    prevFailed,         \* the failed calls of the run before this one, when
                        \* it ran to its end and the sources are unchanged
    committed,          \* <<ns, lang, key>> whose write() this run completed
    resumed,            \* the units the interrupted pass of the last run had
                        \* committed
    basis,              \* <<ns, lang, key>> -> the <<value, context>> of the
                        \* entry when its stored translation was produced
    lastWrote           \* <<lang, key>> -> the text the tool last wrote as the
                        \* translation of an entry with that key

vars == <<api_key, source, files, cache_file, pc, status, error, cache, primary_lang, si, li, ei,
          lang_translations, exiting, processed, total_translations,
          runNo, edits, edited, rerunOf, beforeWrite, changed, calls, failed,
          prevFailed, committed, resumed, basis, lastWrote>>

durable == <<api_key, source, files, cache_file>>

history == <<runNo, edits, edited, rerunOf, beforeWrite, changed, calls, failed,
            prevFailed, committed, resumed, basis, lastWrote>>

Units == NsNames \X LangCodes \X EntryKeys

\* No translation file was written yet.
NoWrite == [file |-> <<SUPPORTED_LANGS[1], Namespaces[1]>>, content |-> NoFile]

\* The (namespace, language, entry) the loops stand at.
CurNs == source_entries(source)[si]

CurLang == SUPPORTED_LANGS[li]

CurEntries == load_source(source[CurNs])

CurEntry == CurEntries[ei]

CurUnit == <<CurNs, CurLang, CurEntry[1]>>

TotalEntries ==
    LET srcs == source_entries(source)
        RECURSIVE Sum(_)
        Sum(i) == IF i > Len(srcs) THEN 0
                  ELSE Len(load_source(source[srcs[i]])) + Sum(i + 1)
    IN Sum(1)

Init ==
    /\ api_key \in ApiKeys
    /\ source \in SourceChoices
    /\ files = [f \in LangCodes \X NsNames |-> NoFile]
    /\ cache_file = NoCacheFile
    /\ pc = "idle"
    /\ status = "none"
    /\ error = None
    /\ cache = EmptyCache
    /\ primary_lang = None
    /\ si = 1 /\ li = 1 /\ ei = 1
    /\ lang_translations = <<>>
    /\ exiting = FALSE
    /\ processed = 0
    /\ total_translations = 0
    /\ runNo = 0
    /\ edits = 0
    /\ edited = FALSE
    /\ rerunOf = "none"
    /\ beforeWrite = NoWrite
    /\ changed = FALSE
    /\ calls = {}
    /\ failed = {}
    /\ prevFailed = {}
    /\ committed = {}
    /\ resumed = {}
    /\ basis = [u \in Units |-> <<None, None>>]
    /\ lastWrote = [u \in LangCodes \X EntryKeys |-> None]

\* The positions of main() inside a (namespace, language) pass.
PassPcs == {"entry", "sleep", "translate", "wt_open", "wt_dump", "wc_open", "wc_dump"}

\* The units of the pass in progress whose write() has completed.
CommittedInPass == {u \in committed : u[1] = CurNs /\ u[2] = CurLang}

(***************************************************************************)
(* The process.                                                            *)
(***************************************************************************)
\* The record of what the run did is dropped: the run was cut short, or
\* the sources it read are no longer the current ones.
RunForgotten ==
    /\ changed' = FALSE
    /\ calls' = {}
    /\ failed' = {}
    /\ committed' = {}

\* The variables of main() that a step of the entry loop may leave alone.
loopVars == <<status, error, primary_lang, si, li, total_translations>>

\* The process is gone: its memory with it.
ProcessEnds(how) ==
    /\ pc' = "idle"
    /\ status' = how
    /\ cache' = EmptyCache
    /\ primary_lang' = None
    /\ si' = 1 /\ li' = 1 /\ ei' = 1
    /\ lang_translations' = <<>>
    /\ exiting' = FALSE
    /\ processed' = 0
    /\ total_translations' = 0

\* main() returns, or exit() is called, or the process is killed.
Exits(how) == ProcessEnds(how) /\ error' = None

\* An exception that nothing catches ends main().
Raises(exc) == ProcessEnds("crashed") /\ error' = exc

\* lines 95-130: a run starts: the cache is loaded, the configuration is
\* checked, the work is counted and the detection is called when the cache
\* names no primary language.
Start ==
    /\ pc = "idle"
    /\ runNo < MaxRuns
    /\ runNo' = runNo + 1
    /\ edited' = FALSE
    /\ rerunOf' = IF edited THEN "none" ELSE status
    /\ changed' = FALSE
    /\ calls' = {}
    /\ failed' = {}
    /\ prevFailed' = IF status = "done" /\ ~edited THEN failed ELSE {}
    /\ committed' = {}
    /\ UNCHANGED <<durable, edits, beforeWrite, basis, lastWrote>>
    /\ IF StartError(cache_file, api_key, source) # None
       THEN Raises(StartError(cache_file, api_key, source)) /\ resumed' = {}
       ELSE LET c == IF cache_file.state = "ok" THEN cache_file.data ELSE EmptyCache
            IN /\ cache' = c
               /\ primary_lang' = c.lang
               /\ total_translations' = TotalTranslations(TotalEntries, c.lang)
               /\ pc' = IF NeedsDetection(c) THEN "detect" ELSE "pass"
               /\ status' = "running"
               /\ error' = None
               /\ si' = 1 /\ li' = 1 /\ ei' = 1
               /\ lang_translations' = <<>>
               /\ exiting' = FALSE
               /\ processed' = 0
               /\ UNCHANGED resumed

\* lines 131-136: the primary language is detected and put in the cache.
DetectOk ==
    /\ pc = "detect"
    /\ \E code \in DetectOut :
          /\ primary_lang' = code
          /\ cache' = [cache EXCEPT !.lang = code]
          /\ total_translations' = TotalTranslations(TotalEntries, code)
    /\ pc' = "lang_open"
    /\ UNCHANGED <<durable, status, error, si, li, ei, lang_translations,
                   exiting, processed, history>>

\* lines 133-134: detect_lang raises or answers None; the assert ends the run.
DetectFail ==
    /\ pc = "detect"
    /\ Raises("AssertionError")
    /\ resumed' = {}
    /\ UNCHANGED <<durable, runNo, edits, edited, rerunOf, beforeWrite, changed,
                   calls, failed, committed, prevFailed, basis, lastWrote>>

\* lines 103, 173: sync_cache opens cache.json, which truncates it.
SyncOpen ==
    /\ pc \in {"lang_open", "wc_open"}
    /\ cache_file' = PartialCacheFile
    /\ pc' = IF pc = "lang_open" THEN "lang_dump" ELSE "wc_dump"
    /\ UNCHANGED <<api_key, source, files, cache, ei, lang_translations, exiting,
                   processed, loopVars, history>>

\* lines 104, 137: sync_cache after the detection.
SyncLang ==
    /\ pc = "lang_dump"
    /\ cache_file' = CacheFile(cache)
    /\ pc' = "pass"
    /\ UNCHANGED <<api_key, source, files, cache, ei, lang_translations, exiting,
                   processed, loopVars, history>>

\* lines 151-163: the next (namespace, language) pass begins, or the run is
\* over.
BeginPass ==
    /\ pc = "pass"
    /\ UNCHANGED <<durable, runNo, edits, edited, rerunOf, beforeWrite, changed,
                   calls, failed, committed, prevFailed, basis, lastWrote>>
    /\ IF si > Len(source_entries(source))
       THEN /\ Exits("done")
            /\ resumed' = {}
       ELSE /\ lang_translations' = load_translations(files[<<CurLang, CurNs>>])
            /\ ei' = 1
            /\ pc' = "entry"
            /\ UNCHANGED <<cache, exiting, processed, loopVars, resumed>>

\* lines 155, 175: the entry loop of the pass is exhausted: on to the next
\* language, or to the next source.
EndPass ==
    /\ pc = "entry"
    /\ ei > Len(CurEntries)
    /\ IF li < Len(SUPPORTED_LANGS)
       THEN li' = li + 1 /\ si' = si
       ELSE li' = 1 /\ si' = si + 1
    /\ ei' = 1
    /\ lang_translations' = <<>>
    /\ pc' = "pass"
    /\ UNCHANGED <<durable, status, error, cache, primary_lang, exiting,
                   processed, total_translations, history>>

\* lines 232-235: the entry's fingerprints and translation are recorded.
Commit(updated_translation) ==
    /\ cache' = [cache EXCEPT !.entries[CurEntry[1]][CurLang] =
                      UpdatedHashes(CurEntry, updated_translation)]
    /\ lang_translations' = DictSet(lang_translations, CurEntry[1], updated_translation)
    /\ processed' = processed + 1
    /\ pc' = "wt_open"

\* lines 175-203, 229-235: an entry that needs no translation is carried
\* forward.
CarryForward ==
    /\ pc = "entry"
    /\ ei <= Len(CurEntries)
    /\ ~HashRaises(CurEntry, CurLang, primary_lang, lang_translations)
    /\ ~needs_translation(CurEntry, CurLang, primary_lang, cache, lang_translations)
    /\ Commit(cur_translation_of(CurEntry, CurLang, primary_lang, lang_translations))
    /\ UNCHANGED <<durable, ei, exiting, loopVars, history>>

\* lines 193-199: the stored translation of the entry is no string, and
\* hashing it raises.
EntryRaises ==
    /\ pc = "entry"
    /\ ei <= Len(CurEntries)
    /\ HashRaises(CurEntry, CurLang, primary_lang, lang_translations)
    /\ Raises("AttributeError")
    /\ resumed' = {}
    /\ UNCHANGED <<durable, runNo, edits, edited, rerunOf, beforeWrite, changed,
                   calls, failed, committed, prevFailed, basis, lastWrote>>

\* Sleep without the delay of line 205: the call is issued at once.
SleepSkipped ==
    /\ pc = "entry"
    /\ ei <= Len(CurEntries)
    /\ ~HashRaises(CurEntry, CurLang, primary_lang, lang_translations)
    /\ needs_translation(CurEntry, CurLang, primary_lang, cache, lang_translations)
    /\ pc' = "translate"
    /\ calls' = calls \cup {CurUnit}
    /\ UNCHANGED <<durable, cache, ei, lang_translations, exiting, processed,
                   loopVars, runNo, edits, edited, rerunOf, beforeWrite, changed,
                   failed, committed, resumed, prevFailed, basis, lastWrote>>

\* lines 175-205: an entry that needs translation: main() blocks in
\* time.sleep(0.5).
Sleep ==
    /\ pc = "entry"
    /\ ei <= Len(CurEntries)
    /\ ~HashRaises(CurEntry, CurLang, primary_lang, lang_translations)
    /\ needs_translation(CurEntry, CurLang, primary_lang, cache, lang_translations)
    /\ pc' = "sleep"
    /\ UNCHANGED <<durable, cache, ei, lang_translations, exiting, processed,
                   loopVars, history>>

\* lines 205-206: the delay is over and llm.translate is called.
BeginTranslate ==
    /\ pc = "sleep"
    /\ pc' = "translate"
    /\ calls' = calls \cup {CurUnit}
    /\ UNCHANGED <<durable, cache, ei, lang_translations, exiting, processed,
                   loopVars, runNo, edits, edited, rerunOf, beforeWrite, changed,
                   failed, committed, resumed, prevFailed, basis, lastWrote>>

\* lines 206-212, 225-235: llm.translate answers a non-empty text.
TranslateOk ==
    /\ pc = "translate"
    /\ \E t \in TransOut : Commit(t)
    /\ basis' = [basis EXCEPT ![CurUnit] = <<CurEntry[2], CurEntry[3]>>]
    /\ UNCHANGED <<durable, ei, exiting, loopVars, runNo, edits, edited,
                   rerunOf, beforeWrite, changed, calls, failed, prevFailed,
                   committed, resumed, lastWrote>>

\* lines 220-224: what the handler of a failed call leaves as the translation.
FailureFallback(entry) == entry[2]

\* TranslateFail without the handler of lines 220-224: the error ends the run.
TranslateFailAborts ==
    /\ pc = "translate"
    /\ Raises("Exception")
    /\ failed' = failed \cup {CurUnit}
    /\ UNCHANGED <<durable, runNo, edits, edited, rerunOf, beforeWrite, changed,
                   calls, committed, resumed, prevFailed, basis, lastWrote>>

\* lines 206-212, 220-224, 232-235: llm.translate raises, or answers None or
\* "" and the assert raises; the handler goes on with the fallback.
TranslateFail ==
    /\ pc = "translate"
    /\ Commit(FailureFallback(CurEntry))
    /\ failed' = failed \cup {CurUnit}
    /\ basis' = [basis EXCEPT ![CurUnit] = <<CurEntry[2], CurEntry[3]>>]
    /\ UNCHANGED <<durable, ei, exiting, loopVars, runNo, edits, edited,
                   rerunOf, beforeWrite, changed, calls, prevFailed, committed,
                   resumed, lastWrote>>

\* lines 214-218: KeyboardInterrupt in the delay or the call: write(), exit.
TranslateInterrupt ==
    /\ pc \in {"sleep", "translate"}
    /\ exiting' = TRUE
    /\ pc' = "wt_open"
    /\ UNCHANGED <<durable, cache, ei, lang_translations, processed, loopVars,
                   history>>

\* lines 39-47: write_translations opens the file, which truncates it.
WriteOpen ==
    /\ pc = "wt_open"
    /\ files' = [files EXCEPT ![<<CurLang, CurNs>>] = PartialFile]
    /\ beforeWrite' = [file |-> <<CurLang, CurNs>>,
                       content |-> files[<<CurLang, CurNs>>]]
    /\ pc' = "wt_dump"
    /\ UNCHANGED <<api_key, source, cache_file, cache, ei, lang_translations, exiting,
                   processed, loopVars, runNo, edits, edited, rerunOf, changed,
                   calls, failed, committed, resumed, prevFailed, basis, lastWrote>>

\* Serialize dumping another object than the mapping of the pass.
SerializeNothing(translations) == <<>>

\* line 48: json.dump of the mapping: the order of the keys in the file.
Serialize(translations) == translations

\* lines 47-48: the mapping is dumped and the file closed.
WriteDump ==
    /\ pc = "wt_dump"
    /\ files' = [files EXCEPT ![<<CurLang, CurNs>>] =
                     JsonFile(Serialize(lang_translations))]
    /\ changed' = (changed \/ JsonFile(Serialize(lang_translations)) # beforeWrite.content)
    /\ lastWrote' = IF exiting THEN lastWrote
                    ELSE [lastWrote EXCEPT ![<<CurLang, CurEntry[1]>>] =
                              DictGet(lang_translations, CurEntry[1])]
    /\ pc' = "wc_open"
    /\ UNCHANGED <<api_key, source, cache_file, cache, ei, lang_translations, exiting,
                   processed, loopVars, runNo, edits, edited, rerunOf, beforeWrite,
                   calls, failed, committed, resumed, prevFailed, basis>>

\* lines 173, 237, 215-218: sync_cache ends write(): on to the next entry,
\* or exit() when the user interrupted.
SyncEntry ==
    /\ pc = "wc_dump"
    /\ cache_file' = CacheFile(cache)
    /\ UNCHANGED <<api_key, source, files, runNo, edits, edited, rerunOf, beforeWrite,
                   prevFailed, basis, lastWrote>>
    /\ IF exiting
       THEN /\ Exits("interrupted")
            /\ resumed' = CommittedInPass
            /\ RunForgotten
       ELSE /\ ei' = ei + 1
            /\ pc' = "entry"
            /\ committed' = committed \cup {CurUnit}
            /\ UNCHANGED <<cache, lang_translations, exiting, processed,
                           loopVars, resumed, changed, calls, failed>>

\* The process is interrupted where nothing catches it (a signal outside
\* the try of lines 204-218, a kill, a power cut).
Kill ==
    /\ pc # "idle"
    /\ Exits("killed")
    /\ resumed' = IF pc \in PassPcs THEN CommittedInPass ELSE {}
    /\ RunForgotten
    /\ UNCHANGED <<durable, runNo, edits, edited, rerunOf, beforeWrite,
                   prevFailed, basis, lastWrote>>

(***************************************************************************)
(* The environment.                                                        *)
(***************************************************************************)
\* A person edits the source files between two runs.
EditSource ==
    /\ pc = "idle"
    /\ edits < MaxEdits
    /\ edits' = edits + 1
    /\ edited' = TRUE
    /\ \E s \in SourceChoices \ {source} : source' = s
    /\ RunForgotten
    /\ UNCHANGED <<api_key, files, cache_file, pc, status, error, cache,
                   primary_lang, si, li, ei,
                   lang_translations, exiting, processed, total_translations,
                   runNo, rerunOf, beforeWrite, resumed, prevFailed, basis, lastWrote>>

\* A person edits a translation file between two runs: the stored
\* translation of a key is replaced by a text, or by a value that is no text.
EditTranslation ==
    /\ pc = "idle"
    /\ edits < MaxEdits
    /\ edits' = edits + 1
    /\ edited' = TRUE
    /\ \E f \in DOMAIN files :
          /\ files[f].state = "ok"
          /\ \E k \in DictKeys(files[f].data), v \in HandValues :
                /\ DictGet(files[f].data, k) # v
                /\ files' = [files EXCEPT ![f] = JsonFile(DictSet(files[f].data, k, v))]
    /\ RunForgotten
    /\ UNCHANGED <<api_key, source, cache_file, pc, status, error, cache,
                   primary_lang, si, li, ei,
                   lang_translations, exiting, processed, total_translations,
                   runNo, rerunOf, beforeWrite, resumed, prevFailed, basis, lastWrote>>

Run ==
    \/ Start \/ DetectOk \/ DetectFail \/ SyncOpen \/ SyncLang
    \/ BeginPass \/ EndPass \/ CarryForward \/ Sleep \/ BeginTranslate
    \/ TranslateOk \/ TranslateFail
    \/ WriteOpen \/ WriteDump \/ SyncEntry

\* Runs that nothing interrupts, with the sources edited between them.
Next == Run \/ EditSource

Spec == Init /\ [][Next]_vars

\* Runs that the user or the system interrupts, with the sources unchanged.
NextInterrupt == Run \/ TranslateInterrupt \/ Kill

SpecInterrupt == Init /\ [][NextInterrupt]_vars

\* Runs that nothing interrupts, with the translation files edited by hand
\* between them.
NextHandEdit == Run \/ EntryRaises \/ EditTranslation

SpecHandEdit == Init /\ [][NextHandEdit]_vars

(***************************************************************************)
(* Properties.                                                             *)
(***************************************************************************)
\* No process runs, the last one ran to its end, and the sources are the
\* ones it read.
RunCompleted == pc = "idle" /\ status = "done" /\ ~edited

\* The entries of a namespace's source file.
EntriesOf(ns) == load_source(source[ns])

EntrySet(ns) == {EntriesOf(ns)[i] : i \in DOMAIN EntriesOf(ns)}

\* The namespaces that have a source file.
SourceNs == {ns \in NsNames : source[ns].state = "ok"}

\* What a reader of the translation file of (lang, ns) finds for a key.
Stored(lang, ns, key) == DictGet(load_translations(files[<<lang, ns>>]), key)

\* The main loop stands at an entry it has not decided yet.
AtEntry == pc = "entry" /\ ei <= Len(CurEntries)

\* main() is inside write(), or about to enter it.
InWrite == pc \in {"wt_open", "wt_dump", "wc_open", "wc_dump"}

\* The lexicographic order of the entry keys.
KeyOrder == <<"a", "b">>

KeyRank(k) == CHOOSE i \in DOMAIN KeyOrder : KeyOrder[i] = k

SortedByKey(d) ==
    \A i, j \in DOMAIN d : i < j => KeyRank(d[i][1]) < KeyRank(d[j][1])

\* C1 (as claimed): a run that follows a completed run, with the same
\* sources and the files the first run left, issues no translate call and
\* writes no translation file with another content or key order than it had.
C1_Idempotence == rerunOf = "done" => (calls = {} /\ ~changed)

\* C2 (as claimed): for a language other than the primary one, an entry
\* whose value or context differs from the ones its stored translation was
\* produced from is judged to need translation.
C2_DriftDetected ==
    (/\ AtEntry
     /\ CurLang # primary_lang
     /\ DictGet(lang_translations, CurEntry[1]) # None
     /\ basis[CurUnit] # <<None, None>>
     /\ basis[CurUnit] # <<CurEntry[2], CurEntry[3]>>)
    => needs_translation(CurEntry, CurLang, primary_lang, cache, lang_translations)

\* C4 (as claimed): after an uninterrupted run, the keys of every
\* translation file of a namespace are exactly the entry keys of its source.
C4_KeySetAgreement ==
    RunCompleted =>
        \A ns \in SourceNs, l \in LangCodes :
            DictKeys(load_translations(files[<<l, ns>>]))
                = {e[1] : e \in EntrySet(ns)}

\* C5 (as claimed): after an uninterrupted run, the primary language's file
\* holds, for every entry, the entry's source value.
C5_PrimaryIdentity ==
    (RunCompleted /\ cache_file.state = "ok") =>
        \A ns \in SourceNs : \A e \in EntrySet(ns) :
            cache_file.data.lang \in LangCodes
                => Stored(cache_file.data.lang, ns, e[1]) = e[2]

\* C6 (as claimed): the run that follows an interrupted run, with the
\* sources unchanged, issues no translate call for an entry that the
\* interrupted pass had committed.
C6_CommittedNotRetranslated == pc # "idle" => calls \cap resumed = {}

\* C7 (as claimed): whenever the process has ended, however it ended, every
\* key that was readable in a translation file before the last write of the
\* file began is still readable in it.
C7_AllOrNothingWrites ==
    pc = "idle" =>
        DictKeys(load_translations(beforeWrite.content))
            \subseteq DictKeys(load_translations(files[beforeWrite.file]))

\* C8: a failed translate call leaves the entry's source text as its
\* translation, the run goes on to its end, where the file holds that text
\* for every failed entry, and no run that issued a translate call aborts.
C8_FailureAbsorbed ==
    /\ (InWrite /\ CurUnit \in failed)
          => DictGet(lang_translations, CurEntry[1]) = CurEntry[2]
    /\ RunCompleted =>
          \A u \in failed : \A e \in EntrySet(u[1]) :
              e[1] = u[3] => Stored(u[2], u[1], u[3]) = e[2]
    /\ status = "crashed" => calls = {}

\* C8 witness: a run in which a call failed for an entry with a non-empty
\* text and another call succeeded has run to its end.
C8_Witness ==
    /\ RunCompleted
    /\ \E u \in failed : Stored(u[2], u[1], u[3]) \notin {None, ""} \cup TransOut
    /\ calls \ failed # {}

\* C9 (as claimed): a failed translation leaves the fingerprints recorded for
\* the entry as they were (cache.json still holds them when write() begins),
\* and the next run judges the entry to need translation.
C9_MetadataOnlyOnSuccess ==
    /\ (pc = "wt_open" /\ CurUnit \in failed) =>
          cache.entries[CurEntry[1]][CurLang]
              = cache_file.data.entries[CurEntry[1]][CurLang]
    /\ (AtEntry /\ CurUnit \in prevFailed) =>
          needs_translation(CurEntry, CurLang, primary_lang, cache, lang_translations)

\* C10 (as claimed): every translation file is written with its keys in
\* lexicographic order.
C10_SortedSerialization ==
    \A f \in DOMAIN files : files[f].state = "ok" => SortedByKey(files[f].data)

\* The exceptions that the load of a store file, or the use of what it
\* loaded, raises.
LoadErrors == {"JSONDecodeError", "AttributeError"}

\* The exceptions of a failed configuration check.
ConfigErrors == {"ValueError", "StopIteration"}

\* C11 (as claimed): no run is ended by an error of the load of a store
\* file (cache.json or a translation file), whatever the file holds.
C11_SoftFailingLoad == status = "crashed" => error \notin LoadErrors

\* C12: while the API key is missing or there is no source file, no run is
\* past its start (where every capability call and every write happens), and
\* a run that was started then has aborted with no translate call issued.
C12_ConfigFatal ==
    /\ (api_key = None \/ source_entries(source) = <<>>) => pc = "idle"
    /\ (runNo > 0 /\ ~edited /\ (api_key = None \/ source_entries(source) = <<>>))
          => (status = "crashed" /\ error \in ConfigErrors /\ calls = {})

\* C12 witness: a first run did its work, the source files were removed, and
\* the next run aborted at its start.
C12_Witness ==
    /\ pc = "idle" /\ status = "crashed" /\ error = "StopIteration"
    /\ cache_file.state = "ok"
    /\ \E f \in DOMAIN files : files[f].state = "ok"

\* C13: when the process exits after a user interrupt in the delay or in the
\* translate call, the translation file of the pass in progress holds the
\* mapping of the pass, with the translation of every entry the pass had
\* committed, and cache.json holds the cache with their fingerprints.
C13_FlushOnInterrupt ==
    [][(pc # "idle" /\ pc' = "idle" /\ status' = "interrupted") =>
         /\ files'[<<CurLang, CurNs>>] = JsonFile(lang_translations)
         /\ cache_file' = CacheFile(cache)
         /\ \A u \in CommittedInPass :
               /\ DictGet(lang_translations, u[3]) # None
               /\ DictGet(load_translations(files'[<<CurLang, CurNs>>]), u[3])
                     = DictGet(lang_translations, u[3])
               /\ cache_file'.data.entries[u[3]][CurLang].output
                     = h(DictGet(lang_translations, u[3]))]_vars

\* C13 witness: the process has exited after a user interrupt in a pass that
\* had committed an entry whose translation the capability had produced.
C13_Witness ==
    /\ pc = "idle" /\ status = "interrupted"
    /\ \E u \in resumed : Stored(u[2], u[1], u[3]) \in TransOut

\* Every (namespace, language, entry) of the sources has a value in the store.
AllStored ==
    \A ns \in SourceNs : \A l \in LangCodes : \A e \in EntrySet(ns) :
        Stored(l, ns, e[1]) # None

\* C14 (as claimed): when a run that the user did not interrupt, and that
\* passed the configuration checks, has ended, every (namespace, language,
\* entry) has a value in the store.
C14_NoUnitPending ==
    (pc = "idle" /\ runNo > 0 /\ ~edited /\ error \notin ConfigErrors) => AllStored

\* C15 (as claimed): an entry is never judged to need translation in the pass
\* of the primary language, and no translate call has it as destination.
C15_PrimaryNeverTranslated ==
    /\ (AtEntry /\ CurLang = primary_lang) =>
          ~needs_translation(CurEntry, CurLang, primary_lang, cache, lang_translations)
    /\ pc \in {"sleep", "translate"} => CurLang # primary_lang

\* C16: a translate call is issued only by a step that leaves the delay, and
\* the detection is the first capability call of its run.
C16_RateLimited ==
    /\ [][(pc' = "translate" /\ pc # "translate") => pc = "sleep"]_vars
    /\ [](pc = "detect" => calls = {})

\* C16 witness: the second translate call of a run is in flight.
C16_Witness == pc = "translate" /\ Cardinality(calls) >= 2

\* C17: the detection is called only at the start of a run, and not when
\* cache.json names a primary language; when a translate call is being
\* prepared or is in flight, cache.json names the primary language of the run.
C17_DetectOnce ==
    /\ [][(pc' = "detect" /\ pc # "detect") => pc = "idle"]_vars
    /\ [](pc = "detect" => ~(cache_file.state = "ok" /\ cache_file.data.lang # None))
    /\ [](pc \in {"sleep", "translate"} =>
             /\ primary_lang # None
             /\ cache_file.state = "ok"
             /\ cache_file.data.lang = primary_lang)

\* C17 witness: a run that follows an interrupted run, which had detected the
\* primary language, has a translate call in flight.
C17_Witness == pc = "translate" /\ runNo = 2 /\ rerunOf = "interrupted"

\* Another namespace has an entry with this key and another value.
SharedKey(ns, entry) ==
    \E o \in SourceNs \ {ns} : \E e \in EntrySet(o) :
        e[1] = entry[1] /\ e[2] # entry[2]

\* C18 (as claimed): in a run that follows a completed run, with the same
\* sources and the files the first run left, a non-empty entry whose key
\* another namespace has with another value is not judged to need translation.
C18_Independence ==
    (AtEntry /\ rerunOf = "done" /\ CurEntry[2] # "" /\ SharedKey(CurNs, CurEntry))
        => ~needs_translation(CurEntry, CurLang, primary_lang, cache, lang_translations)

\* The run stands at an entry of a language other than the primary one whose
\* stored translation is a text other than the one the tool last wrote for
\* the language and the key.
HandEdited ==
    /\ AtEntry
    /\ CurLang # primary_lang
    /\ DictGet(lang_translations, CurEntry[1]) \notin {None, JsonNumber}
    /\ lastWrote[<<CurLang, CurEntry[1]>>] # None
    /\ DictGet(lang_translations, CurEntry[1]) # lastWrote[<<CurLang, CurEntry[1]>>]

C20_ProgressWithinTotal == processed <= total_translations

====
